---- MODULE Spec2Model ----
(***************************************************************************)
(* Model of @tadashi/got (src/got.js, latest revision: the module that     *)
(* keeps the `controllers` and `redirects` maps).                          *)
(*                                                                         *)
(* A call to got() runs synchronously up to `await globalThis.fetch`, and  *)
(* again from the settlement of an await to the next await or to the end   *)
(* of the function (JavaScript run-to-completion).  Each action below is   *)
(* one such synchronous stretch.                                           *)
(***************************************************************************)
EXTENDS Integers, Sequences, FiniteSets, TLC

VARIABLES
    calls,        \* the activations of got(), in the order they were entered
    optionObjs,   \* the `options` objects the callers hold (heap)
    controllers,  \* Map name -> AbortController (0: no entry)
    redirects,    \* Map name -> hop count (Absent: no entry)
    aborted,      \* the reachable AbortControllers whose abort() was called
    tmpl,         \* index of the argument template this run's callers use
    built         \* the last call of got, gql or rest whose request was built

vars == <<calls, optionObjs, controllers, redirects, aborted, tmpl, built>>

----------------------------------------------------------------------------
(* Bounds *)

MaxCalls == 3     \* activations of got: calls by callers and re-issues
MaxChunks == 2    \* chunks of an error body
MaxBodyCalls == 2 \* activations of got in the runs that look into error bodies

----------------------------------------------------------------------------
(* Values *)

undefined == "undefined"       \* the JS value undefined, as a `name`
NoMethod == <<>>               \* options.method absent
NoBody == "nobody"             \* options.body absent
NoMax == -1                    \* args.maxRedirects absent
Absent == -1                   \* redirects.has(name) is false

Names == {undefined, "a", "b"}

POST == <<"P", "O", "S", "T">>
post == <<"p", "o", "s", "t">>
GET == <<"G", "E", "T">>
get == <<"g", "e", "t">>
head == <<"h", "e", "a", "d">>
PUT == <<"P", "U", "T">>
HEAD == <<"H", "E", "A", "D">>
REPOST == <<"R", "E", "P", "O", "S", "T">>

ValidUrl == "http://h/redirect"
InvalidUrl == "not a url"
DataUrl == "http://h/data"

Endpoints == {ValidUrl, InvalidUrl}
Locations == {DataUrl}

\* chunks of an error body, as the bytes the reader delivers: the text "U",
\* the text "1", and the first byte of a two-byte character whose second
\* byte the chunk boundary cut off
ChunkU == <<"U">>
ChunkOne == <<"1">>
ChunkCut == <<"xC3">>

\* the argument templates of the callers: options.method, options.body,
\* options.headers, maxRedirects, onlyResponse; `shared`: the callers pass
\* one long-lived options object to every call instead of a new literal;
\* `texts`: the chunks the server of the run builds its error bodies from
\* (none: its error bodies are empty)
Templates == <<
    [method |-> POST,     body |-> "b1",   headers |-> "h1", maxRedirects |-> 1,
     onlyResponse |-> FALSE, shared |-> FALSE, texts |-> {}],
    [method |-> post,     body |-> NoBody, headers |-> "h0", maxRedirects |-> 0,
     onlyResponse |-> TRUE,  shared |-> FALSE, texts |-> {}],
    [method |-> POST,     body |-> NoBody, headers |-> "h0", maxRedirects |-> 2,
     onlyResponse |-> TRUE,  shared |-> TRUE,  texts |-> {}],
    [method |-> GET,      body |-> NoBody, headers |-> "h1", maxRedirects |-> NoMax,
     onlyResponse |-> FALSE, shared |-> TRUE,  texts |-> {}],
    [method |-> REPOST,   body |-> "b1",   headers |-> "h0", maxRedirects |-> 1,
     onlyResponse |-> FALSE, shared |-> FALSE, texts |-> {}],
    [method |-> NoMethod, body |-> NoBody, headers |-> "h0", maxRedirects |-> NoMax,
     onlyResponse |-> TRUE,  shared |-> FALSE, texts |-> {}],
    [method |-> GET,      body |-> NoBody, headers |-> "h0", maxRedirects |-> NoMax,
     onlyResponse |-> FALSE, shared |-> FALSE, texts |-> {ChunkU, ChunkOne, ChunkCut}],
    [method |-> POST,     body |-> NoBody, headers |-> "h0", maxRedirects |-> 1,
     onlyResponse |-> FALSE, shared |-> FALSE, texts |-> {}] >>

\* the templates of the request runs, the template of the error-body runs
\* and the template of the runs whose termination is checked
RequestTemplates == 1..6
BodyTemplate == 7
LiveTemplate == 8

\* the names the callers of a run use
NamesOf(t) == IF t = LiveTemplate THEN {"a"} ELSE Names

\* the activations a run is bounded by
CallsOf(t) == IF t = BodyTemplate THEN MaxBodyCalls ELSE MaxCalls

\* the bodies a server sends: up to MaxChunks chunks
Bodies(texts) == UNION {[1..n -> texts] : n \in 0..MaxChunks}

\* what fetch may resolve with: the status, whether the transport followed a
\* redirect and to which URL (response.url), and the chunks of the body
\* (read for a non-success status only)
Responses ==
    {r \in [status : {200, 401}, redirected : BOOLEAN, location : Locations,
            chunks : Bodies(Templates[tmpl].texts)] :
        /\ (~r.redirected => r.location = DataUrl)
        /\ (r.status = 200 => r.chunks = <<>>)}

----------------------------------------------------------------------------
(* Pure helpers *)

Lower(ch) ==
    CASE ch = "P" -> "p" [] ch = "O" -> "o" [] ch = "S" -> "s" [] ch = "T" -> "t"
      [] ch = "G" -> "g" [] ch = "E" -> "e" [] ch = "H" -> "h" [] ch = "A" -> "a"
      [] ch = "D" -> "d" [] ch = "R" -> "r" [] ch = "U" -> "u" [] OTHER -> ch

Upper(ch) ==
    CASE ch = "p" -> "P" [] ch = "o" -> "O" [] ch = "s" -> "S" [] ch = "t" -> "T"
      [] ch = "g" -> "G" [] ch = "e" -> "E" [] ch = "h" -> "H" [] ch = "a" -> "A"
      [] ch = "d" -> "D" [] ch = "r" -> "R" [] ch = "u" -> "U" [] OTHER -> ch

\* String(options.method): the regular expression is applied to the text
MethodText(m) ==
    IF m = NoMethod THEN <<"u", "n", "d", "e", "f", "i", "n", "e", "d">> ELSE m

\* /post/i.test(options.method): an unanchored, case-insensitive search
TestPost(m) ==
    LET s == MethodText(m)
    IN \E i \in 1..(Len(s) - 3) :
          /\ Lower(s[i]) = "p"
          /\ Lower(s[i + 1]) = "o"
          /\ Lower(s[i + 2]) = "s"
          /\ Lower(s[i + 3]) = "t"

\* the method of the Request built from the options: absent -> GET, the
\* standard methods are upper-cased, any other token is kept
RequestMethod(m) ==
    LET up == [i \in 1..Len(m) |-> Upper(m[i])]
    IN IF m = NoMethod THEN GET
       ELSE IF up \in {GET, HEAD, POST} THEN up
       ELSE m

\* new Request(endpoint, options) throws a TypeError
RequestThrows(endpoint, o) ==
    \/ endpoint = InvalidUrl
    \/ RequestMethod(o.method) \in {GET, HEAD} /\ o.body # NoBody

Truthy(name) == name # undefined /\ name # ""

ResponseOk(resp) == resp.status >= 200 /\ resp.status <= 299

\* response.statusText, the reason phrase of the status line
StatusText(status) ==
    CASE status = 200 -> "OK" [] status = 401 -> "Unauthorized" [] OTHER -> ""

\* the body of an error: absent, the raw text, or the value JSON.parse gave
NoErrorBody == [kind |-> "undefined", text |-> <<>>]
RawBody(text) == [kind |-> "text", text |-> text]
JsonBody(text) == [kind |-> "json", text |-> text]

\* new TextDecoder().decode(value): a decoder of its own for every chunk, so
\* an incomplete character becomes U+FFFD
Decode(chunk) ==
    [k \in 1..Len(chunk) |-> IF chunk[k] \in {"U", "1"} THEN chunk[k] ELSE "uFFFD"]

\* chunks.join('')
RECURSIVE Join(_)
Join(chunks) == IF chunks = <<>> THEN <<>> ELSE Head(chunks) \o Join(Tail(chunks))

\* JSON.parse(text) does not throw: of the texts the chunks can spell, the
\* numbers
JsonParses(text) == text # <<>> /\ \A k \in 1..Len(text) : text[k] = "1"

\* (mutant) the body is never parsed
ErrorBody_neverParsed(allbody) == RawBody(allbody)

\* lines 575-581: the parsed value, or the text when JSON.parse throws
ErrorBody(allbody) == IF JsonParses(allbody) THEN JsonBody(allbody) ELSE RawBody(allbody)

\* (mutant) the constructor forgets `this.statusCode = status`
ResponseError_noStatusCode(message, status, body) ==
    [how |-> "throw", what |-> "ResponseError", message |-> message, status |-> status,
     statusCode |-> 0, statusText |-> message, body |-> body]

\* new ResponseError(message, status, body)
ResponseError(message, status, body) ==
    [how |-> "throw", what |-> "ResponseError", message |-> message, status |-> status,
     statusCode |-> status, statusText |-> message, body |-> body]

\* (mutant) a catch block wraps the error into a ResponseError
OtherError_wrapped(what, message) ==
    [how |-> "throw", what |-> "ResponseError", message |-> message, status |-> 500,
     statusCode |-> 500, statusText |-> message, body |-> NoErrorBody]

\* an error that is not a ResponseError (a TypeError of `new Request` or of
\* fetch, the AbortError of an aborted signal)
OtherError(what, message) ==
    [how |-> "throw", what |-> what, message |-> message, status |-> 0,
     statusCode |-> 0, statusText |-> "", body |-> NoErrorBody]

\* (mutant) onlyResponse is ignored
Returned_alwaysJson(what) ==
    [how |-> "return", what |-> "json", message |-> "", status |-> 0,
     statusCode |-> 0, statusText |-> "", body |-> NoErrorBody]

\* `return response` / `return response.json()`
Returned(what) ==
    [how |-> "return", what |-> what, message |-> "", status |-> 0,
     statusCode |-> 0, statusText |-> "", body |-> NoErrorBody]

Pending ==
    [how |-> "none", what |-> "", message |-> "", status |-> 0,
     statusCode |-> 0, statusText |-> "", body |-> NoErrorBody]

\* no request was built yet
NotBuilt == [via |-> "none"]

\* what an activation has seen of the response of its fetch
NoResponse == [status |-> 0, redirected |-> FALSE, location |-> ""]
Seen(resp) == [status |-> resp.status, redirected |-> resp.redirected, location |-> resp.location]

----------------------------------------------------------------------------
(* The activations of got() *)

\* args.maxRedirects with its default
DefaultMaxRedirects == 5
MaxRedirectsOf(m) == IF m = NoMax THEN DefaultMaxRedirects ELSE m

\* An activation whose frame is gone: either it settled (pc = "done") or it
\* returned the promise of its re-issue and settles with it (pc = "forward").
\* What is left of it is what its caller observes.
Frameless(pc, parent, seen, outcome) ==
    [pc |-> pc, name |-> undefined, ignoreAbort |-> FALSE, endpoint |-> "",
     maxRedirects |-> NoMax, onlyResponse |-> FALSE, options |-> 0,
     cc |-> 0, controller |-> 0, signal |-> 0,
     parent |-> parent, depth |-> 0, left |-> <<>>, chunks |-> <<>>,
     seen |-> seen, outcome |-> outcome]

Live(c) == c.pc \in {"fetch", "pump"}

\* the options object the template's callers share
SharedOptions == 0

\* the program state the synchronous stretches transform
State == [calls |-> calls, optionObjs |-> optionObjs, controllers |-> controllers,
          redirects |-> redirects, aborted |-> aborted]

\* (mutant) the handle found is dropped without controller.abort()
_abort_noAbort(st, name, id) ==
    IF Truthy(name)
    THEN [st EXCEPT !.controllers = [st.controllers EXCEPT ![name] = id]]
    ELSE st

\* _abort(name), called by activation `id`; the AbortController it creates
\* is identified by the activation that created it
_abort(st, name, id) ==
    LET hit == Truthy(name) /\ st.controllers[name] # 0
        ab == IF hit THEN st.aborted \cup {st.controllers[name]} ELSE st.aborted
        ctl == IF hit THEN [st.controllers EXCEPT ![name] = 0] ELSE st.controllers
    IN IF Truthy(name)
       THEN [st EXCEPT !.aborted = ab, !.controllers = [ctl EXCEPT ![name] = id]]
       ELSE [st EXCEPT !.aborted = ab, !.controllers = ctl]

\* the controller _abort returns to activation `id`
_abortResult(name, id) == IF Truthy(name) THEN id ELSE 0

\* (mutant) the condition dropped: every call deduplicates
Deduplicates_always(args) == TRUE

\* `if (ignoreAbort === false || name === undefined)`
Deduplicates(args) == args.ignoreAbort = FALSE \/ args.name = undefined

\* got(args) from its entry to `await globalThis.fetch(request)`, or to the
\* TypeError of `new Request`, which is thrown outside the try block
GotEnter(st, args, parent, depth) ==
    LET id == Len(st.calls) + 1
        has == st.redirects[args.name] # Absent
        cc == IF has THEN st.redirects[args.name] ELSE 0
        st1 == IF has THEN st ELSE [st EXCEPT !.redirects[args.name] = 0]
        st2 == IF Deduplicates(args) THEN _abort(st1, args.name, id) ELSE st1
        controller == IF Deduplicates(args) THEN _abortResult(args.name, id) ELSE 0
        st3 == IF controller # 0
               THEN [st2 EXCEPT !.optionObjs[args.options].signal = controller]
               ELSE st2
        o == st3.optionObjs[args.options]
        call == IF RequestThrows(args.endpoint, o)
                THEN Frameless("done", parent, NoResponse, OtherError("TypeError", "Invalid request"))
                ELSE [pc |-> "fetch", name |-> args.name, ignoreAbort |-> args.ignoreAbort,
                      endpoint |-> args.endpoint, maxRedirects |-> args.maxRedirects,
                      onlyResponse |-> args.onlyResponse, options |-> args.options,
                      cc |-> cc, controller |-> controller, signal |-> o.signal,
                      parent |-> parent, depth |-> depth, left |-> <<>>, chunks |-> <<>>,
                      seen |-> NoResponse, outcome |-> Pending]
    IN [st3 EXCEPT !.calls = Append(st3.calls, call)]

\* (mutant) controllers.clear() in place of controllers.delete(name)
GotFinally_clearsAll(st, name) ==
    [st EXCEPT !.controllers = [n \in Names |-> 0],
               !.redirects = [st.redirects EXCEPT ![name] = Absent]]

\* (mutant) the redirects entry is not deleted
GotFinally_keepsRedirects(st, name) ==
    [st EXCEPT !.controllers = [st.controllers EXCEPT ![name] = 0]]

\* (mutant) the redirects entry is deleted only together with a controllers entry
GotFinally_redirectsWithController(st, name) ==
    IF st.controllers[name] # 0
    THEN [st EXCEPT !.controllers = [st.controllers EXCEPT ![name] = 0],
                    !.redirects = [st.redirects EXCEPT ![name] = Absent]]
    ELSE st

\* the finally block of got
GotFinally(st, name) ==
    LET ctl == IF st.controllers[name] # 0
               THEN [st.controllers EXCEPT ![name] = 0] ELSE st.controllers
        red == IF st.redirects[name] # Absent
               THEN [st.redirects EXCEPT ![name] = Absent] ELSE st.redirects
    IN [st EXCEPT !.controllers = ctl, !.redirects = red]

\* activation i settles; the activations that returned its promise (its
\* parent, and the parent's parent ...) settle with the same outcome
RECURSIVE Settle(_, _, _)
Settle(cs, i, outcome) ==
    LET cs1 == [cs EXCEPT ![i] = Frameless("done", cs[i].parent, cs[i].seen, outcome)]
    IN IF cs[i].parent = 0 THEN cs1
       ELSE Settle(cs1, cs[i].parent, outcome)

\* `throw x` / `return x` inside the try block of activation i
GotExit(st, i, outcome) ==
    LET st1 == GotFinally(st, st.calls[i].name)
    IN [st1 EXCEPT !.calls = Settle(st1.calls, i, outcome)]

\* Garbage: an options literal no live activation refers to, and an
\* AbortController no map entry, options object or request refers to.
Collect(st) ==
    LET live == {i \in 1..Len(st.calls) : Live(st.calls[i])}
        objs == {SharedOptions} \cup {st.calls[i].options : i \in live}
        oo == [k \in (DOMAIN st.optionObjs) \cap objs |-> st.optionObjs[k]]
        reach == {st.controllers[n] : n \in Names}
                 \cup {oo[k].signal : k \in DOMAIN oo}
                 \cup {st.calls[i].signal : i \in live}
    IN [st EXCEPT !.optionObjs = oo, !.aborted = st.aborted \cap reach]

Commit(st) ==
    LET st1 == Collect(st)
    IN /\ calls' = st1.calls
       /\ optionObjs' = st1.optionObjs
       /\ controllers' = st1.controllers
       /\ redirects' = st1.redirects
       /\ aborted' = st1.aborted
       /\ UNCHANGED <<tmpl, built>>

----------------------------------------------------------------------------
(* Actions *)

Init ==
    /\ calls = <<>>
    /\ tmpl \in RequestTemplates
    /\ optionObjs = [k \in {SharedOptions} |->
                       [method |-> Templates[tmpl].method, body |-> Templates[tmpl].body,
                        headers |-> Templates[tmpl].headers, signal |-> 0]]
    /\ controllers = [n \in Names |-> 0]
    /\ redirects = [n \in Names |-> Absent]
    /\ aborted = {}
    /\ built = NotBuilt

\* a caller calls got({endpoint, name, ignoreAbort, maxRedirects,
\* onlyResponse, options})
Call(name, ignoreAbort, endpoint) ==
    /\ Len(calls) < CallsOf(tmpl)
    /\ name \in NamesOf(tmpl)
    /\ LET t == Templates[tmpl]
           id == Len(calls) + 1
           literal == [method |-> t.method, body |-> t.body, headers |-> t.headers, signal |-> 0]
           oid == IF t.shared THEN SharedOptions ELSE id
           objs == IF t.shared THEN optionObjs
                   ELSE [k \in DOMAIN optionObjs \cup {id} |->
                           IF k = id THEN literal ELSE optionObjs[k]]
           args == [name |-> name, ignoreAbort |-> ignoreAbort, endpoint |-> endpoint,
                    maxRedirects |-> t.maxRedirects, onlyResponse |-> t.onlyResponse,
                    options |-> oid]
       IN Commit(GotEnter([State EXCEPT !.optionObjs = objs], args, 0, 0))

\* (mutant) redirects.set(name, cc): the hop is not counted
Reissue_noIncrement(st, i, resp) ==
    LET c == st.calls[i]
        st1 == [st EXCEPT !.redirects[c.name] = c.cc]
        args == [name |-> c.name, ignoreAbort |-> c.ignoreAbort, endpoint |-> resp.location,
                 maxRedirects |-> c.maxRedirects, onlyResponse |-> c.onlyResponse,
                 options |-> c.options]
    IN GotEnter(st1, args, i, c.depth + 1)

\* (mutant) got({endpoint: response.url, name, options}): `...args` forgotten
Reissue_dropsArgs(st, i, resp) ==
    LET c == st.calls[i]
        st1 == [st EXCEPT !.redirects[c.name] = c.cc + 1]
        args == [name |-> c.name, ignoreAbort |-> FALSE, endpoint |-> resp.location,
                 maxRedirects |-> NoMax, onlyResponse |-> FALSE,
                 options |-> c.options]
    IN GotEnter(st1, args, i, c.depth + 1)

\* the re-issue of activation i: redirects.set(name, cc + 1); return got({...args, endpoint: response.url})
Reissue(st, i, resp) ==
    LET c == st.calls[i]
        st1 == [st EXCEPT !.redirects[c.name] = c.cc + 1]
        args == [name |-> c.name, ignoreAbort |-> c.ignoreAbort, endpoint |-> resp.location,
                 maxRedirects |-> c.maxRedirects, onlyResponse |-> c.onlyResponse,
                 options |-> c.options]
    IN GotEnter(st1, args, i, c.depth + 1)

\* (mutant) the budget check is dropped
BudgetSpent_never(c) == FALSE

\* (mutant) cc > maxRedirects
BudgetSpent_offByOne(c) == c.cc > MaxRedirectsOf(c.maxRedirects)

\* the budget check of the redirect branch: cc >= maxRedirects
BudgetSpent(c) == c.cc >= MaxRedirectsOf(c.maxRedirects)

\* (mutant) the redirect branch placed after the `!response.ok` branch
FollowsRedirect_afterClassification(o, resp) ==
    TestPost(o.method) /\ resp.redirected /\ ResponseOk(resp)

\* the condition of the redirect branch
FollowsRedirect(o, resp) == TestPost(o.method) /\ resp.redirected

\* the redirect branch within budget, with the finally block of activation
\* i, which runs as soon as the re-issue has reached its own await
Redirect(st, i, resp) ==
    LET c == st.calls[i]
        st1 == Reissue(st, i, resp)
        new == Len(st1.calls)
        st2 == GotFinally(st1, c.name)
        fw == [st2.calls EXCEPT ![i] = Frameless("forward", c.parent, Seen(resp), Pending)]
    IN [st2 EXCEPT !.calls =
           IF fw[new].pc = "done" THEN Settle(fw, new, fw[new].outcome) ELSE fw]

\* fetch of activation i resolves with resp; got runs to its next await or to its end
FetchResolve(i, resp) ==
    /\ calls[i].pc = "fetch"
    /\ calls[i].signal \notin aborted
    /\ LET c == calls[i]
           o == optionObjs[c.options]
           st == [State EXCEPT !.calls[i].seen = Seen(resp)]
       IN IF FollowsRedirect(o, resp)
          THEN IF BudgetSpent(c)
               THEN Commit(GotExit(st, i, ResponseError("ERR_TOO_MANY_REDIRECTS", 429, NoErrorBody)))
               ELSE /\ Len(calls) < CallsOf(tmpl)
                    /\ Commit(Redirect(st, i, resp))
          ELSE IF ~ResponseOk(resp)
          THEN Commit([st EXCEPT !.calls[i].pc = "pump", !.calls[i].left = resp.chunks])
          ELSE Commit(GotExit(st, i, Returned(IF c.onlyResponse THEN "response" ELSE "json")))

\* fetch of activation i rejects: its signal was aborted, or the network failed
FetchReject(i) ==
    /\ calls[i].pc = "fetch"
    /\ Commit(GotExit(State, i,
              IF calls[i].signal \in aborted
              THEN OtherError("AbortError", "This operation was aborted")
              ELSE OtherError("TypeError", "fetch failed")))

\* `await reader.read()` of activation i settles: the read rejects when the
\* request was aborted, delivers the next chunk, or reports done, and then
\* got joins the chunks, parses the text and throws
Pump(i) ==
    /\ calls[i].pc = "pump"
    /\ LET c == calls[i]
       IN IF c.signal \in aborted
          THEN Commit(GotExit(State, i, OtherError("AbortError", "This operation was aborted")))
          ELSE IF c.left # <<>>
          THEN Commit([State EXCEPT !.calls[i].left = Tail(c.left),
                                    !.calls[i].chunks = Append(c.chunks, Decode(Head(c.left)))])
          ELSE Commit(GotExit(State, i,
                   ResponseError(StatusText(c.seen.status), c.seen.status,
                                 ErrorBody(Join(c.chunks)))))

Next ==
    \/ \E name \in Names, ignoreAbort \in BOOLEAN, endpoint \in Endpoints :
          Call(name, ignoreAbort, endpoint)
    \/ \E i \in 1..Len(calls), resp \in Responses : FetchResolve(i, resp)
    \/ \E i \in 1..Len(calls) : FetchReject(i)
    \/ \E i \in 1..Len(calls) : Pump(i)

Spec == Init /\ [][Next]_vars

\* the fetch of activation i settles, one way or the other
FetchSettles(i) ==
    /\ i \in 1..Len(calls)
    /\ \/ \E resp \in Responses : FetchResolve(i, resp)
       \/ FetchReject(i)

\* the read of activation i settles
ReadSettles(i) == i \in 1..Len(calls) /\ Pump(i)

\* a fetch or a read that is pending settles
Settles == \E i \in 1..Len(calls) : FetchSettles(i) \/ ReadSettles(i)

\* the runs in which no fetch and no read of a body stays pending for ever
InitLive ==
    /\ calls = <<>>
    /\ tmpl = LiveTemplate
    /\ optionObjs = [k \in {SharedOptions} |->
                       [method |-> Templates[tmpl].method, body |-> Templates[tmpl].body,
                        headers |-> Templates[tmpl].headers, signal |-> 0]]
    /\ controllers = [n \in Names |-> 0]
    /\ redirects = [n \in Names |-> Absent]
    /\ aborted = {}
    /\ built = NotBuilt

SpecLive == InitLive /\ [][Next]_vars /\ WF_vars(Settles)

\* the runs whose servers send error bodies of every kind
InitBody ==
    /\ calls = <<>>
    /\ tmpl = BodyTemplate
    /\ optionObjs = [k \in {SharedOptions} |->
                       [method |-> Templates[tmpl].method, body |-> Templates[tmpl].body,
                        headers |-> Templates[tmpl].headers, signal |-> 0]]
    /\ controllers = [n \in Names |-> 0]
    /\ redirects = [n \in Names |-> Absent]
    /\ aborted = {}
    /\ built = NotBuilt

SpecBody == InitBody /\ [][Next]_vars

TypeOK ==
    /\ Len(calls) <= MaxCalls
    /\ \A n \in Names : controllers[n] \in 0..Len(calls)
    /\ \A n \in Names : redirects[n] \in Absent..MaxCalls

----------------------------------------------------------------------------
(* The values and objects gql and rest build the arguments of got from *)

\* JS values: undefined, a string, a number, an object (its own properties
\* in insertion order), and the string JSON.stringify returns
UndefinedValue == [kind |-> "undefined"]
Str(text) == [kind |-> "string", text |-> text]
Num(text) == [kind |-> "number", text |-> text]
Obj(entries) == [kind |-> "object", entries |-> entries]
JsonText(entries) == [kind |-> "json", entries |-> entries]

\* an options or headers object: the sequence of its <<key, value>> pairs
Has(obj, key) == \E k \in 1..Len(obj) : obj[k][1] = key
Get(obj, key) == obj[CHOOSE k \in 1..Len(obj) : obj[k][1] = key][2]

\* obj[key] = value
Put(obj, key, value) ==
    IF Has(obj, key)
    THEN [k \in 1..Len(obj) |-> IF obj[k][1] = key THEN <<key, value>> ELSE obj[k]]
    ELSE Append(obj, <<key, value>>)

\* {...a, ...b}
RECURSIVE Spread(_, _)
Spread(a, b) ==
    IF b = <<>> THEN a ELSE Spread(Put(a, Head(b)[1], Head(b)[2]), Tail(b))

\* Reflect.deleteProperty(obj, key)
Delete(obj, key) == SelectSeq(obj, LAMBDA e : e[1] # key)

\* const optionsDefault
optionsDefault ==
    << <<"method", POST>>, <<"mode", "cors">>, <<"credentials", "include">>,
       <<"redirect", "follow">>, <<"referrerPolicy", "no-referrer-when-downgrade">> >>

\* const mapHeadGet
mapHeadGet == {get, head}

\* headers: {'Content-Type': 'application/json'}
JsonHeaders == << <<"Content-Type", "application/json">> >>

\* obj.body, obj.headers and obj.method of an options object
BodyOf(options) == IF Has(options, "body") THEN Get(options, "body") ELSE UndefinedValue
HeadersOf(options) == IF Has(options, "headers") THEN Get(options, "headers") ELSE <<>>
MethodIn(options) == IF Has(options, "method") THEN Get(options, "method") ELSE NoMethod

\* (mutant) a || b
Coalesce_or(a, b) == IF a \in {UndefinedValue, Str("")} THEN b ELSE a

\* a ?? b
Coalesce(a, b) == IF a = UndefinedValue THEN b ELSE a

\* JSON.stringify(value): undefined gives undefined, and the properties of an
\* object whose value is undefined are left out
JSONStringify(value) ==
    IF value = UndefinedValue THEN UndefinedValue
    ELSE JsonText(SelectSeq(value.entries, LAMBDA e : e[2] # UndefinedValue))

\* String(v), as searchParams.append applies it to a value
StringOf(value) == IF value = UndefinedValue THEN "undefined" ELSE value.text

\* an endpoint: the text before the query string, and the parameters of the
\* query string
UrlText(base, search) == [base |-> base, search |-> search]

\* new URL(endpoint) does not throw
UrlParses(endpoint) == endpoint.base # InvalidUrl

\* _url.searchParams.append(k, v) for every entry, and _url.href
RECURSIVE SearchAppend(_, _)
SearchAppend(url, entries) ==
    IF entries = <<>> THEN url
    ELSE SearchAppend([url EXCEPT !.search = Append(@, <<Head(entries)[1], StringOf(Head(entries)[2])>>)],
                      Tail(entries))

----------------------------------------------------------------------------
(* gql, rest and the Request that got builds *)

\* the name of a header as a Headers object keeps it: lower-cased
LowerName(name) ==
    CASE name = "Content-Type" -> "content-type"
      [] name = "X-Token" -> "x-token"
      [] OTHER -> name

\* new Headers(init): the values given under names that differ in case only
\* are combined into one list, in the order of the properties
RECURSIVE Combine(_, _)
Combine(acc, headers) ==
    IF headers = <<>> THEN acc
    ELSE LET n == LowerName(Head(headers)[1])
             v == Head(headers)[2]
         IN Combine(IF Has(acc, n) THEN Put(acc, n, Get(acc, n) \o <<v>>)
                    ELSE Append(acc, <<n, <<v>>>>),
                    Tail(headers))

\* the headers of the Request: those of the options, and the content type
\* the platform gives a string body that comes with none
RequestHeaders(options) ==
    LET given == Combine(<<>>, HeadersOf(options))
    IN IF BodyOf(options) # UndefinedValue /\ ~Has(given, "content-type")
       THEN Append(given, <<"content-type", <<"text/plain;charset=UTF-8">>>>)
       ELSE given

\* a member of the options, or what the platform takes when it is absent
OptionOr(options, key, default) == IF Has(options, key) THEN Get(options, key) ELSE default

Thrown(what) == [how |-> "throw", what |-> what]

\* new globalThis.Request(endpoint, options) in got: got hands over the
\* options it was given, without merging optionsDefault
NewRequest(endpoint, options) ==
    IF \/ ~UrlParses(endpoint)
       \/ /\ RequestMethod(MethodIn(options)) \in {GET, HEAD}
          /\ BodyOf(options) # UndefinedValue
    THEN Thrown("TypeError")
    ELSE [how |-> "request",
          url |-> endpoint,
          method |-> RequestMethod(MethodIn(options)),
          mode |-> OptionOr(options, "mode", "cors"),
          credentials |-> OptionOr(options, "credentials", "same-origin"),
          redirect |-> OptionOr(options, "redirect", "follow"),
          referrerPolicy |-> OptionOr(options, "referrerPolicy", ""),
          headers |-> RequestHeaders(options),
          body |-> BodyOf(options)]

\* the arguments of got after its destructuring defaults
GotArgs(endpoint, maxRedirects, name, onlyResponse, options) ==
    [how |-> "call", endpoint |-> endpoint, maxRedirects |-> MaxRedirectsOf(maxRedirects),
     name |-> name, onlyResponse |-> onlyResponse, ignoreAbort |-> FALSE,
     options |-> options]

\* gql(args): the arguments it calls got with
gql(args) ==
    LET merged == Spread(Spread(<< <<"headers", JsonHeaders>> >>, optionsDefault), args.options)
        payload == Obj(<< <<"source", args.source>>, <<"query", args.query>>,
                          <<"variableValues", args.variableValues>>,
                          <<"variables", args.variables>>,
                          <<"operationName", args.operationName>> >>)
        _options == Put(merged, "body", Coalesce(BodyOf(merged), JSONStringify(payload)))
    IN GotArgs(args.endpoint, args.maxRedirects, args.name, FALSE, _options)

\* (mutant) the method is compared as written
IsHeadOrGet_caseSensitive(options) == MethodIn(options) \in mapHeadGet

\* mapHeadGet.has(String(_options.method).toLowerCase())
IsHeadOrGet(options) ==
    LET text == MethodText(MethodIn(options))
    IN [k \in 1..Len(text) |-> Lower(text[k])] \in mapHeadGet

\* rest(args): the arguments it calls got with, or the TypeError of new URL
rest(args) ==
    LET merged == Spread(optionsDefault, args.options)
        typed == IF args.json
                 THEN Put(merged, "headers",
                          Put(HeadersOf(merged), "Content-Type", "application/json"))
                 ELSE merged
        entries == IF args.data = UndefinedValue THEN <<>> ELSE args.data.entries
    IN IF IsHeadOrGet(typed)
       THEN IF UrlParses(args.endpoint)
            THEN GotArgs(SearchAppend(args.endpoint, entries), args.maxRedirects,
                         args.name, args.onlyResponse, Delete(typed, "body"))
            ELSE Thrown("TypeError")
       ELSE GotArgs(args.endpoint, args.maxRedirects, args.name, args.onlyResponse,
                    Put(typed, "body", Coalesce(BodyOf(typed), JSONStringify(args.data))))

----------------------------------------------------------------------------
(* The calls whose request is built *)

\* the options a caller passes: each member given or left out
OptionsOf(method, credentials, headers, body) ==
    (IF method = NoMethod THEN <<>> ELSE << <<"method", method>> >>)
    \o (IF credentials = "" THEN <<>> ELSE << <<"credentials", credentials>> >>)
    \o (IF headers = <<>> THEN <<>> ELSE << <<"headers", headers>> >>)
    \o (IF body = UndefinedValue THEN <<>> ELSE << <<"body", body>> >>)

BuildHeaders ==
    { <<>>,
      << <<"X-Token", "t">> >>,
      << <<"content-type", "text/plain">> >>,
      << <<"Content-Type", "text/plain">>, <<"X-Token", "t">> >> }

BuildOptions ==
    {OptionsOf(m, c, h, b) : m \in {NoMethod, GET, get, HEAD, PUT}, c \in {"", "omit"},
                             h \in BuildHeaders,
                             b \in {UndefinedValue, Str("raw"), Str("")}}

BuildData ==
    {UndefinedValue, Obj(<<>>), Obj(<< <<"key", Str("value")>>, <<"n", Num("1")>> >>)}

BuildEndpoints ==
    {UrlText(DataUrl, <<>>), UrlText(DataUrl, << <<"a", "b">> >>), UrlText(InvalidUrl, <<>>)}

GotInputs ==
    [endpoint : BuildEndpoints, maxRedirects : {NoMax, 1}, name : {"a"},
     onlyResponse : BOOLEAN, options : BuildOptions]

GqlInputs ==
    [endpoint : BuildEndpoints, maxRedirects : {NoMax, 1}, name : {"a"},
     source : {UndefinedValue, Str("query {data}")},
     query : {UndefinedValue, Str("{data}")},
     variableValues : {UndefinedValue, Obj(<< <<"id", Num("1")>> >>)},
     variables : {UndefinedValue},
     operationName : {UndefinedValue, Str("op")},
     options : BuildOptions]

RestInputs ==
    [endpoint : BuildEndpoints, maxRedirects : {NoMax, 1}, name : {"a"},
     onlyResponse : BOOLEAN, json : BOOLEAN, data : BuildData, options : BuildOptions]

\* a caller calls got(args): the Request of line 539
BuildGot(args) ==
    /\ built' = [via |-> "got", args |-> args,
                 passed |-> GotArgs(args.endpoint, args.maxRedirects, args.name,
                                    args.onlyResponse, args.options),
                 sent |-> NewRequest(args.endpoint, args.options)]
    /\ UNCHANGED <<calls, optionObjs, controllers, redirects, aborted, tmpl>>

\* a caller calls gql(args)
BuildGql(args) ==
    /\ LET g == gql(args)
       IN built' = [via |-> "gql", args |-> args, passed |-> g,
                    sent |-> NewRequest(g.endpoint, g.options)]
    /\ UNCHANGED <<calls, optionObjs, controllers, redirects, aborted, tmpl>>

\* a caller calls rest(args)
BuildRest(args) ==
    /\ LET g == rest(args)
       IN built' = [via |-> "rest", args |-> args, passed |-> g,
                    sent |-> IF g.how = "throw" THEN g
                             ELSE NewRequest(g.endpoint, g.options)]
    /\ UNCHANGED <<calls, optionObjs, controllers, redirects, aborted, tmpl>>

InitBuild == Init /\ tmpl = 1

\* one call in a run
NextBuild ==
    \/ /\ built = NotBuilt
       /\ \E args \in GotInputs : BuildGot(args)
    \/ /\ built = NotBuilt
       /\ \E args \in GqlInputs : BuildGql(args)
    \/ /\ built = NotBuilt
       /\ \E args \in RestInputs : BuildRest(args)

SpecBuild == InitBuild /\ [][NextBuild]_vars

----------------------------------------------------------------------------
(* Vocabulary of the properties *)

\* the method is POST, compared case-insensitively
IsPostMethod(m) == m # NoMethod /\ [k \in 1..Len(m) |-> Upper(m[k])] = POST

MethodOf(c) == optionObjs[c.options].method

\* this step is a caller's call that reached its fetch, as activation `new`
Issues(new) ==
    /\ new = Len(calls) + 1
    /\ Len(calls') = new
    /\ calls'[new].parent = 0
    /\ Live(calls'[new])

\* this step re-issues activation i as activation `new`
Reissues(i, new) ==
    /\ new = Len(calls) + 1
    /\ Len(calls') = new
    /\ calls'[new].parent = i
    /\ i # 0

\* this step settles activation i on the non-success response it received
\* and did not take for a POST redirect
SettlesOnFailure(i) ==
    /\ i <= Len(calls) /\ Live(calls[i]) /\ calls'[i].pc = "done"
    /\ calls'[i].seen # NoResponse
    /\ ~ResponseOk(calls'[i].seen)
    /\ ~FollowsRedirect(optionObjs[calls[i].options], calls'[i].seen)

\* the outcome is a ResponseError that carries the status and the reason
\* phrase of the response
IsResponseErrorOf(outcome, resp) ==
    /\ outcome.how = "throw"
    /\ outcome.what = "ResponseError"
    /\ outcome.status = resp.status /\ outcome.statusCode = resp.status
    /\ outcome.message = StatusText(resp.status)
    /\ outcome.statusText = StatusText(resp.status)

\* the text of the error body of activation c: what it has read and decoded,
\* followed by what the reader has yet to deliver
WholeText(c) == Join(c.chunks \o [k \in 1..Len(c.left) |-> Decode(c.left[k])])

\* the call of a caller that activation i belongs to: i itself, or the
\* start of the redirect chain i is a hop of
RECURSIVE Root(_, _)
Root(cs, i) == IF cs[i].parent = 0 THEN i ELSE Root(cs, cs[i].parent)

\* this step resumes activation i (its fetch or its read settled)
Resumes(i) == i <= Len(calls) /\ Live(calls[i]) /\ calls'[i] # calls[i]

----------------------------------------------------------------------------
(* C1 *)

\* C1: when a call starts under a non-empty name with ignoreAbort=false,
\* the AbortController of every earlier caller-issued call under that name
\* with ignoreAbort=false that has not settled is aborted.
C1_EarlierCallAborted ==
    [][\A e \in 1..Len(calls) :
          LET new == Len(calls) + 1
          IN (/\ Issues(new)
              /\ calls'[new].ignoreAbort = FALSE
              /\ Truthy(calls'[new].name)
              /\ Live(calls[e])
              /\ calls[e].parent = 0
              /\ calls[e].ignoreAbort = FALSE
              /\ calls[e].name = calls'[new].name)
             => calls[e].controller \in aborted']_vars

(* C2 *)

\* C2: whenever no call is in flight, the controllers map and the redirects
\* map are empty (every exit path of got removed the entries of its name).
C2_IdleMapsEmpty ==
    (\A i \in 1..Len(calls) : calls[i].pc = "done")
        => \A n \in Names : controllers[n] = 0 /\ redirects[n] = Absent

(* C3 *)

\* C3: when a call starts under a non-empty name with ignoreAbort=false
\* while a re-issued redirect hop of a call under that name
\* (ignoreAbort=false) is in flight, the hop's AbortController is aborted.
C3_HopAborted ==
    [][\A h \in 1..Len(calls) :
          LET new == Len(calls) + 1
          IN (/\ Issues(new)
              /\ calls'[new].ignoreAbort = FALSE
              /\ Truthy(calls'[new].name)
              /\ Live(calls[h])
              /\ calls[h].parent # 0
              /\ calls[h].ignoreAbort = FALSE
              /\ calls[h].name = calls'[new].name)
             => calls[h].controller \in aborted']_vars

(* C4 *)

\* C4: when the fetch of a POST call resolves with a redirected response
\* and the call's chain has already made maxRedirects hops, the call throws
\* ResponseError('ERR_TOO_MANY_REDIRECTS', 429) and no request is issued.
C4_TooManyRedirects ==
    [][\A i \in 1..Len(calls) :
          (/\ calls[i].pc = "fetch"
           /\ calls'[i].seen.redirected
           /\ IsPostMethod(MethodOf(calls[i]))
           /\ calls[i].depth >= MaxRedirectsOf(calls[i].maxRedirects))
          => /\ calls'[i].pc = "done"
             /\ calls'[i].outcome.how = "throw"
             /\ calls'[i].outcome.what = "ResponseError"
             /\ calls'[i].outcome.message = "ERR_TOO_MANY_REDIRECTS"
             /\ calls'[i].outcome.status = 429
             /\ calls'[i].outcome.statusCode = 429
             /\ Len(calls') = Len(calls)]_vars

\* a chain that made a hop and then failed on the next redirected response
C4_Witness ==
    \E i \in 1..Len(calls) :
        /\ calls[i].pc = "done"
        /\ calls[i].parent # 0
        /\ calls[i].seen.redirected
        /\ calls[i].outcome.message = "ERR_TOO_MANY_REDIRECTS"
        /\ calls[i].outcome.status = 429
        /\ calls[calls[i].parent].outcome = calls[i].outcome

(* C5 *)

\* C5: an activation in flight is at most the maxRedirects-th hop of its
\* chain, so a chain issues at most maxRedirects + 1 fetches.
C5_HopsWithinBudget ==
    \A i \in 1..Len(calls) :
        Live(calls[i]) => calls[i].depth <= MaxRedirectsOf(calls[i].maxRedirects)

\* the last hop the budget allows, in flight beside another call of its name
C5_Witness ==
    \E i, j \in 1..Len(calls) :
        /\ i # j
        /\ Live(calls[i]) /\ Live(calls[j])
        /\ calls[i].depth >= 1
        /\ calls[i].depth = MaxRedirectsOf(calls[i].maxRedirects)
        /\ calls[j].name = calls[i].name

(* C6 *)

\* C6: a re-issue carries the name, maxRedirects, ignoreAbort, onlyResponse
\* and the options object (method, body, headers) of the activation it
\* re-issues; its endpoint is the URL of the redirected response.
C6_ReissuePreservesRequest ==
    [][\A i \in 1..Len(calls) :
          LET new == Len(calls) + 1
          IN (Reissues(i, new) /\ Live(calls'[new]))
             => /\ calls'[new].name = calls[i].name
                /\ calls'[new].maxRedirects = calls[i].maxRedirects
                /\ calls'[new].ignoreAbort = calls[i].ignoreAbort
                /\ calls'[new].onlyResponse = calls[i].onlyResponse
                /\ calls'[new].options = calls[i].options
                /\ optionObjs'[calls[i].options].method = optionObjs[calls[i].options].method
                /\ optionObjs'[calls[i].options].body = optionObjs[calls[i].options].body
                /\ optionObjs'[calls[i].options].headers = optionObjs[calls[i].options].headers
                /\ calls'[new].endpoint = calls'[i].seen.location]_vars

\* a POST with a body, re-issued to /data with onlyResponse set
C6_Witness ==
    \E i \in 1..Len(calls) :
        /\ calls[i].pc = "fetch"
        /\ calls[i].parent # 0
        /\ calls[i].endpoint = DataUrl
        /\ RequestMethod(MethodOf(calls[i])) = POST
        /\ optionObjs[calls[i].options].body = "b1"
        /\ calls[i].maxRedirects = 1

(* C7 *)

\* C7: an activation is re-issued only when its response is redirected and
\* its method is POST, compared case-insensitively.
C7_OnlyPostReissued ==
    [][\A i \in 1..Len(calls) :
          Reissues(i, Len(calls) + 1)
          => /\ calls'[i].seen.redirected
             /\ IsPostMethod(MethodOf(calls[i]))]_vars

(* C8 *)

\* C8: a step changes the controllers entry of at most one name; a step of
\* a call changes the controllers entry of the call's own name only, aborts only the AbortController registered under that name,
\* and leaves the calls in flight under other names as they are; a step of
\* an unnamed call changes no entry and aborts nothing, and an unnamed call
\* in flight has no AbortController.
C8_OwnNameOnly ==
    [][/\ Cardinality({n \in Names : controllers'[n] # controllers[n]}) <= 1
       /\ \A i \in 1..Len(calls'), nm \in Names :
             (\/ Resumes(i) /\ nm = calls[i].name
              \/ Issues(i) /\ nm = calls'[i].name)
             => /\ \A n \in Names \ {nm} : controllers'[n] = controllers[n]
                /\ (aborted' \ aborted) \subseteq {controllers[nm]}
                /\ (nm = undefined => controllers' = controllers /\ aborted' \subseteq aborted)
                /\ \A j \in 1..Len(calls) :
                      (Live(calls[j]) /\ calls[j].name # nm) => calls'[j] = calls[j]
       /\ \A i \in 1..Len(calls') :
             (Live(calls'[i]) /\ calls'[i].name = undefined) => calls'[i].controller = 0]_vars

\* calls in flight under two names, each holding the entry of its name,
\* beside an unnamed call
C8_Witness ==
    \E i, j, k \in 1..Len(calls) :
        /\ Live(calls[i]) /\ Live(calls[j]) /\ Live(calls[k])
        /\ calls[i].name = "a" /\ controllers["a"] = i /\ i \notin aborted
        /\ calls[j].name = "b" /\ controllers["b"] = j /\ j \notin aborted
        /\ calls[k].name = undefined /\ k > i /\ k > j

(* C9 *)

\* C9: the hop count an unnamed call uses in its budget check is the
\* number of hops of its own chain.
C9_UnnamedOwnHopCount ==
    \A i \in 1..Len(calls) :
        (Live(calls[i]) /\ calls[i].name = undefined) => calls[i].cc = calls[i].depth

\* an unnamed call entered while the hop of another unnamed call is in flight
C9_Witness ==
    \E i, j \in 1..Len(calls) :
        /\ i < j
        /\ Live(calls[i]) /\ calls[i].name = undefined /\ calls[i].depth = 1
        /\ Live(calls[j]) /\ calls[j].name = undefined /\ calls[j].parent = 0
        /\ calls[j].cc = 0

(* C10 *)

\* C10: a caller's call with ignoreAbort=true and a non-empty name changes
\* no controllers entry, aborts nothing, holds no AbortController of its
\* own and leaves the calls in flight as they are.
C10_IgnoreAbortSkipsDedup ==
    [][LET new == Len(calls) + 1
       IN (/\ Issues(new)
           /\ calls'[new].ignoreAbort = TRUE
           /\ Truthy(calls'[new].name))
          => /\ controllers' = controllers
             /\ aborted' = aborted
             /\ calls'[new].controller = 0
             /\ \A j \in 1..Len(calls) : calls'[j] = calls[j]]_vars

\* a call with ignoreAbort=true in flight beside the registered, unaborted
\* call of its name
C10_Witness ==
    \E i, j \in 1..Len(calls) :
        /\ i < j
        /\ Live(calls[i]) /\ Live(calls[j])
        /\ Truthy(calls[i].name) /\ calls[j].name = calls[i].name
        /\ calls[j].ignoreAbort = TRUE /\ calls[j].controller = 0
        /\ calls[i].controller = i /\ controllers[calls[i].name] = i
        /\ i \notin aborted

(* C11 *)

\* C11: for every response whose status is not in the success range and
\* that is not handled as a POST redirect, got throws a ResponseError with
\* name 'ResponseError', status = statusCode = the status of the response
\* and message = statusText = its reason phrase.
C11_FailureThrowsResponseError ==
    [][\A i \in 1..Len(calls) :
          SettlesOnFailure(i) => IsResponseErrorOf(calls'[i].outcome, calls'[i].seen)]_vars

\* C11, amended: the same, for the responses whose body the call reads to
\* its end without being aborted; and every such response has its body
\* read.
C11_UnabortedFailureThrowsResponseError ==
    [][\A i \in 1..Len(calls) :
          /\ (SettlesOnFailure(i) /\ calls[i].signal \notin aborted)
                => IsResponseErrorOf(calls'[i].outcome, calls'[i].seen)
          /\ (/\ calls[i].pc = "fetch"
              /\ calls'[i].seen # NoResponse
              /\ ~ResponseOk(calls'[i].seen)
              /\ ~FollowsRedirect(optionObjs[calls[i].options], calls'[i].seen))
                => calls'[i].pc = "pump"]_vars

\* a call that threw the ResponseError of a 401 answer
C11_Witness ==
    \E i \in 1..Len(calls) :
        /\ calls[i].pc = "done"
        /\ calls[i].seen.status = 401
        /\ calls[i].outcome.what = "ResponseError"
        /\ calls[i].outcome.statusCode = 401
        /\ calls[i].outcome.statusText = "Unauthorized"

(* C12 *)

\* C12: for a non-success response the error body is read to exhaustion
\* (every read adds the next chunk and skips none, and the ResponseError is
\* thrown only when no chunk is left), the body of the thrown ResponseError
\* is the parsed JSON value when the drained text is valid JSON and the raw
\* text otherwise, and the read that reports the end of the body always
\* ends in the ResponseError, whether the text parses or not.
C12_ErrorBodyDrainedAndParsed ==
    [][\A i \in 1..Len(calls) :
          calls[i].pc = "pump" =>
             /\ (calls'[i] # calls[i] /\ calls'[i].pc = "pump") =>
                   /\ Len(calls'[i].chunks) = Len(calls[i].chunks) + 1
                   /\ WholeText(calls'[i]) = WholeText(calls[i])
             /\ (calls'[i].pc = "done" /\ calls'[i].outcome.what = "ResponseError") =>
                   /\ calls[i].left = <<>>
                   /\ calls'[i].outcome.body.text = WholeText(calls[i])
                   /\ calls'[i].outcome.body.kind =
                         IF JsonParses(WholeText(calls[i])) THEN "json" ELSE "text"
             /\ (/\ calls'[i] # calls[i]
                 /\ calls[i].left = <<>>
                 /\ calls[i].signal \notin aborted) =>
                   /\ calls'[i].pc = "done"
                   /\ calls'[i].outcome.what = "ResponseError"]_vars

\* one ResponseError whose body is the number parsed from two chunks, and
\* one whose body is the raw text of a body that is not JSON
C12_Witness ==
    \E i, j \in 1..Len(calls) :
        /\ calls[i].pc = "done" /\ calls[i].outcome.what = "ResponseError"
        /\ calls[i].outcome.body = JsonBody(<<"1", "1">>)
        /\ calls[j].pc = "done" /\ calls[j].outcome.what = "ResponseError"
        /\ calls[j].outcome.body.kind = "text"
        /\ calls[j].outcome.body.text # <<>>

(* C13 *)

\* C13: when the fetch of an activation rejects (the network failed, or a
\* same-named call aborted its signal), the call of the caller ends with
\* that very error, the AbortError or the TypeError of fetch: it is not a
\* ResponseError, and no activation is started in its place.
C13_FetchErrorUnchanged ==
    [][\A i \in 1..Len(calls) :
          (/\ calls[i].pc = "fetch"
           /\ calls'[i].pc = "done"
           /\ calls'[i].seen = NoResponse) =>
             /\ calls'[i].outcome.how = "throw"
             /\ calls'[i].outcome.what =
                   IF calls[i].signal \in aborted THEN "AbortError" ELSE "TypeError"
             /\ calls'[i].outcome.status = 0
             /\ calls'[i].outcome.body = NoErrorBody
             /\ calls'[Root(calls, i)].pc = "done"
             /\ calls'[Root(calls, i)].outcome = calls'[i].outcome
             /\ Len(calls') = Len(calls)]_vars

\* a superseded call that ended with the AbortError, and a call that ended
\* with the TypeError its re-issue ended with
C13_Witness ==
    \E i, j, k \in 1..Len(calls) :
        /\ calls[i].pc = "done" /\ calls[i].seen = NoResponse
        /\ calls[i].outcome.what = "AbortError"
        /\ calls[k].parent = j /\ calls[k].pc = "done" /\ calls[k].seen = NoResponse
        /\ calls[k].outcome.what = "TypeError"
        /\ calls[k].outcome.message = "fetch failed"
        /\ calls[j].pc = "done" /\ calls[j].outcome = calls[k].outcome

(* C14 *)

\* the caller gave neither a method nor another transport option
NoTransportOption(options) ==
    \A key \in {"method", "mode", "credentials", "redirect", "referrerPolicy"} :
        ~Has(options, key)

\* C14: a call of got, gql or rest that supplies no method and no other
\* transport option is sent with method POST, mode cors, credentials include,
\* redirect follow and referrerPolicy no-referrer-when-downgrade, and a
\* credentials value the caller supplies is the one that is sent.
C14_DefaultsApplied ==
    (built # NotBuilt /\ built.sent.how = "request") =>
        /\ NoTransportOption(built.args.options) =>
              /\ built.sent.method = POST
              /\ built.sent.mode = "cors"
              /\ built.sent.credentials = "include"
              /\ built.sent.redirect = "follow"
              /\ built.sent.referrerPolicy = "no-referrer-when-downgrade"
        /\ Has(built.args.options, "credentials") =>
              built.sent.credentials = Get(built.args.options, "credentials")

(* C15 *)

\* the method rest works with: the caller's, or the default; and whether it
\* is GET or HEAD in any letter case
EffectiveMethod(options) == IF Has(options, "method") THEN Get(options, "method") ELSE POST
IsGetOrHead(m) == [k \in 1..Len(m) |-> Upper(m[k])] \in {GET, HEAD}

\* the query parameters the entries of data make
DataParams(data) ==
    IF data = UndefinedValue THEN <<>>
    ELSE [k \in 1..Len(data.entries) |-> <<data.entries[k][1], data.entries[k][2].text>>]

\* C15: when the effective method of a call of rest is GET or HEAD, in any
\* letter case, the request has no body even if the caller supplied
\* options.body, and every key/value of data is appended, in order, to the
\* query string of the endpoint.
C15_GetHeadDataInQuery ==
    (/\ built.via = "rest"
     /\ IsGetOrHead(EffectiveMethod(built.args.options))
     /\ UrlParses(built.args.endpoint)) =>
        /\ built.passed.how = "call"
        /\ ~Has(built.passed.options, "body")
        /\ built.sent.how = "request"
        /\ built.sent.body = UndefinedValue
        /\ built.sent.url.base = built.args.endpoint.base
        /\ built.sent.url.search = built.args.endpoint.search \o DataParams(built.args.data)

\* rest with method 'get', a body and two data entries, on an endpoint that
\* has a query string already
C15_Witness ==
    /\ built.via = "rest"
    /\ Has(built.args.options, "method") /\ Get(built.args.options, "method") = get
    /\ Has(built.args.options, "body")
    /\ built.sent.how = "request"
    /\ built.sent.method = GET
    /\ built.sent.url.search = << <<"a", "b">>, <<"key", "value">>, <<"n", "1">> >>

(* C16 *)

\* the headers the caller passed in options.headers
CallerHeaders(args) == HeadersOf(args.options)

\* C16: the request of every call of gql, and of every call of rest with
\* json true, carries Content-Type: application/json whatever headers the
\* caller passed, and the caller's headers other than Content-Type are sent
\* beside it.
C16_ContentTypeForced ==
    (/\ built.via = "gql" \/ (built.via = "rest" /\ built.args.json)
     /\ built.sent.how = "request") =>
        /\ Has(built.sent.headers, "content-type")
        /\ Get(built.sent.headers, "content-type") = <<"application/json">>
        /\ \A k \in 1..Len(CallerHeaders(built.args)) :
              LET h == CallerHeaders(built.args)[k]
              IN LowerName(h[1]) # "content-type" =>
                    /\ Has(built.sent.headers, LowerName(h[1]))
                    /\ Get(built.sent.headers, LowerName(h[1])) = <<h[2]>>

(* C17 *)

\* the JSON text of the object {source, query, variableValues, variables,
\* operationName} of a call of gql
GqlPayloadJson(args) ==
    JsonText(SelectSeq(<< <<"source", args.source>>, <<"query", args.query>>,
                          <<"variableValues", args.variableValues>>,
                          <<"variables", args.variables>>,
                          <<"operationName", args.operationName>> >>,
                       LAMBDA e : e[2] # UndefinedValue))

\* the JSON text of the data of a call of rest (none when data is undefined)
DataJson(data) == IF data = UndefinedValue THEN UndefinedValue ELSE JsonText(data.entries)

\* C17: for a method other than GET and HEAD, the body of the request of
\* rest is the caller's options.body when one is supplied and the JSON text
\* of data otherwise, and the body of the request of gql is the caller's
\* options.body when one is supplied and the JSON text of {source, query,
\* variableValues, variables, operationName} otherwise.
C17_ExplicitBodyElseJson ==
    (/\ built.via \in {"gql", "rest"}
     /\ ~IsGetOrHead(EffectiveMethod(built.args.options))
     /\ UrlParses(built.args.endpoint)) =>
        /\ built.sent.how = "request"
        /\ built.sent.body =
              IF Has(built.args.options, "body") THEN Get(built.args.options, "body")
              ELSE IF built.via = "rest" THEN DataJson(built.args.data)
              ELSE GqlPayloadJson(built.args)

\* gql with a source and no body of the caller: the JSON text of {source}
\* is sent by POST
C17_Witness ==
    /\ built.via = "gql"
    /\ ~Has(built.args.options, "body")
    /\ built.sent.how = "request"
    /\ built.sent.method = POST
    /\ built.sent.body = JsonText(<< <<"source", Str("query {data}")>> >>)

(* C18 *)

\* C18: when an activation receives a success response that is not taken
\* for a POST redirect, it returns the raw response if the caller passed
\* onlyResponse true and the decoded JSON payload if not, and so does the
\* call of the caller when the activation is a hop of its redirect chain.
C18_OnlyResponse ==
    [][\A i \in 1..Len(calls) :
          (/\ calls[i].pc = "fetch"
           /\ calls'[i].pc = "done"
           /\ ResponseOk(calls'[i].seen)
           /\ ~FollowsRedirect(optionObjs[calls[i].options], calls'[i].seen)) =>
             /\ calls'[i].outcome.how = "return"
             /\ calls'[i].outcome.what =
                   IF Templates[tmpl].onlyResponse THEN "response" ELSE "json"
             /\ calls'[Root(calls, i)].pc = "done"
             /\ calls'[Root(calls, i)].outcome = calls'[i].outcome]_vars

\* a call with onlyResponse true that returned the raw response its
\* re-issue received
C18_Witness ==
    \E i, j \in 1..Len(calls) :
        /\ calls[j].parent = i
        /\ calls[j].pc = "done" /\ calls[j].seen.status = 200
        /\ calls[j].outcome.how = "return" /\ calls[j].outcome.what = "response"
        /\ calls[i].pc = "done" /\ calls[i].outcome = calls[j].outcome
        /\ Templates[tmpl].onlyResponse

(* C19 *)

\* C19: the controllers map holds one handle per name and no handle under
\* two names; and a step that puts a new handle in the place of the handle
\* of a name has aborted the old handle (seen on the call in flight that
\* owns it), and the new handle is the fresh, unaborted one that the call
\* which registered it holds.
C19_ReplacedHandleAborted ==
    [][/\ \A n, m \in Names :
            (controllers'[n] # 0 /\ controllers'[n] = controllers'[m]) => n = m
       /\ \A n \in Names :
            (controllers[n] # 0 /\ controllers'[n] \notin {0, controllers[n]}) =>
               LET old == controllers[n]
                   new == controllers'[n]
               IN /\ (Live(calls[old]) /\ calls[old].controller = old) =>
                        /\ old \in aborted'
                        /\ calls'[old].signal = old
                  /\ new = Len(calls) + 1
                  /\ new \notin aborted'
                  /\ Live(calls'[new]) => calls'[new].controller = new]_vars

\* a call in flight whose handle was aborted and replaced by the handle of
\* a later call of the same name
C19_Witness ==
    \E i, j \in 1..Len(calls) :
        /\ i < j
        /\ Live(calls[i]) /\ calls[i].controller = i /\ i \in aborted
        /\ Live(calls[j]) /\ calls[j].controller = j /\ j \notin aborted
        /\ calls[j].name = calls[i].name
        /\ controllers[calls[j].name] = j

(* C20 *)

\* C20: while a hop of a redirect chain is in flight, the redirects entry
\* of the chain's name is present and no step makes it smaller.
C20_RedirectsEntryKept ==
    [][\A j \in 1..Len(calls') :
          (Live(calls'[j]) /\ calls'[j].parent # 0) =>
             /\ redirects'[calls'[j].name] # Absent
             /\ redirects'[calls'[j].name] >= redirects[calls'[j].name]]_vars

(* C21 *)

\* this step is a caller's call that ended in got before it reached a fetch
FailsAtOnce(new) ==
    /\ new = Len(calls) + 1
    /\ Len(calls') = new
    /\ calls'[new].parent = 0
    /\ calls'[new].pc = "done"

\* C21: in the state in which the caller of a call observes its rejection
\* or its value, the controllers and redirects entries of its name are
\* removed: for a call that settles after an await, and for a call that
\* fails before its fetch is issued (it leaves no handle of its own and no
\* new redirects entry).
C21_CleanupBeforeSettled ==
    [][/\ \A i \in 1..Len(calls) :
            (Live(calls[i]) /\ calls'[i].pc = "done") =>
               /\ controllers'[calls[i].name] = 0
               /\ redirects'[calls[i].name] = Absent
       /\ FailsAtOnce(Len(calls) + 1) =>
            \A n \in Names :
               /\ controllers'[n] # Len(calls) + 1
               /\ redirects[n] = Absent => redirects'[n] = Absent]_vars

(* C22 *)

\* C22: when a POST activation receives a response that is both redirected
\* and non-success, it is re-issued, or it fails with 429 when the budget is
\* spent: its body is not read and no error carries its status; and the
\* body of a response is read for classification only when the response is
\* non-success and not followed as a redirect.
C22_RedirectBeforeClassification ==
    [][\A i \in 1..Len(calls) :
          (calls[i].pc = "fetch" /\ calls'[i].seen # NoResponse) =>
             /\ (/\ IsPostMethod(MethodOf(calls[i]))
                 /\ calls'[i].seen.redirected
                 /\ ~ResponseOk(calls'[i].seen)) =>
                   \/ /\ Reissues(i, Len(calls) + 1)
                      /\ calls'[i].pc = "forward"
                      /\ ~BudgetSpent(calls[i])
                   \/ /\ calls'[i].pc = "done"
                      /\ calls'[i].outcome.what = "ResponseError"
                      /\ calls'[i].outcome.status = 429
                      /\ BudgetSpent(calls[i])
                      /\ Len(calls') = Len(calls)
             /\ calls'[i].pc = "pump" =>
                   /\ ~ResponseOk(calls'[i].seen)
                   /\ ~(TestPost(MethodOf(calls[i])) /\ calls'[i].seen.redirected)]_vars

\* a POST call that received a redirected 401 and was re-issued, its
\* re-issue in flight
C22_Witness ==
    \E i, j \in 1..Len(calls) :
        /\ calls[j].parent = i /\ Live(calls[j])
        /\ IsPostMethod(MethodOf(calls[j]))
        /\ calls[i].pc = "forward"
        /\ calls[i].seen.status = 401 /\ calls[i].seen.redirected

(* C23 *)

\* C23: when every fetch and every read of a body settles in the end, every
\* activation of got settles in the end, and so does the call of the caller
\* that returned the promise of its re-issue; and the chain of re-issues is
\* never longer than maxRedirects, whatever the server answers.
C23_EveryCallSettles ==
    /\ [](\A i \in 1..Len(calls) :
            Live(calls[i]) => calls[i].depth <= MaxRedirectsOf(calls[i].maxRedirects))
    /\ \A i \in 1..MaxCalls :
            (i <= Len(calls)) ~> (i <= Len(calls) /\ calls[i].pc = "done")

\* a call whose re-issue was redirected again: both settled with the 429 of
\* the spent budget, and nothing is in flight
C23_Witness ==
    /\ \E i, j \in 1..Len(calls) :
          /\ calls[j].parent = i
          /\ calls[j].seen.redirected
          /\ calls[j].pc = "done" /\ calls[j].outcome.status = 429
          /\ calls[i].pc = "done" /\ calls[i].outcome.status = 429
    /\ \A i \in 1..Len(calls) : calls[i].pc = "done"

(* C24 *)

\* activation i was issued under a non-empty name with ignoreAbort=false,
\* awaits its fetch and is not aborted
Deduplicated(i) ==
    /\ calls[i].pc = "fetch"
    /\ calls[i].ignoreAbort = FALSE
    /\ Truthy(calls[i].name)
    /\ calls[i].controller \notin aborted

\* C24: at every await, if a call issued under a name with ignoreAbort=false
\* awaits its fetch and is not aborted, the controllers entry of the name is
\* its handle, and it is the latest such call of the name (so there is at
\* most one of them per name).
C24_LatestHandleRegistered ==
    \A i \in 1..Len(calls) :
        Deduplicated(i) =>
           /\ controllers[calls[i].name] = i
           /\ \A j \in 1..Len(calls) :
                 (Deduplicated(j) /\ calls[j].name = calls[i].name) => j = i

(* C25 *)

\* C25: no step removes from the controllers map the handle of a call that
\* is still in flight after the step: neither the handle the map held
\* before the step, nor the handle a re-issue registers in the step.
C25_CleanupRemovesOwnHandleOnly ==
    [][/\ \A n \in Names :
            (/\ controllers[n] # 0
             /\ Live(calls'[controllers[n]])
             /\ controllers[n] \notin aborted') => controllers'[n] # 0
       /\ \A i \in 1..Len(calls) :
            LET new == Len(calls) + 1
            IN (/\ Reissues(i, new)
                /\ Live(calls'[new])
                /\ calls'[new].controller = new) =>
                  controllers'[calls'[new].name] = new]_vars

(* C26 *)

\* C26: every call issued by a caller (not a redirect hop) starts with hop
\* count 0, whatever hops other calls of the name have consumed or are
\* consuming; and at every await the redirects entry of a name is absent or 0.
C26_CallerStartsAtZero ==
    [][/\ \A new \in 1..(Len(calls) + 1) : Issues(new) => calls'[new].cc = 0
       /\ \A n \in Names : redirects'[n] \in {Absent, 0}]_vars

\* a caller's call j was issued with hop count 0 under a name while a hop of
\* an ignoreAbort=true chain of that name, counted 1 or more, was in flight
C26_Witness ==
    \E h, j \in 1..Len(calls) :
        /\ h < j
        /\ calls[h].pc = "fetch" /\ calls[h].parent # 0
        /\ calls[h].ignoreAbort = TRUE /\ calls[h].cc >= 1
        /\ calls[j].pc = "fetch" /\ calls[j].parent = 0
        /\ calls[j].name = calls[h].name
        /\ calls[j].cc = 0

(* C27 *)

\* C27: a call in flight that was issued with ignoreAbort=true under a name
\* carries no signal (and so no later same-named call can abort it), also
\* when its options object is the one an earlier named call received.
C27_IgnoreAbortCarriesNoSignal ==
    \A i \in 1..Len(calls) :
        (/\ Live(calls[i])
         /\ calls[i].ignoreAbort = TRUE
         /\ calls[i].name # undefined) =>
           /\ calls[i].signal = 0
           /\ calls[i].signal \notin aborted

====
